---- MODULE Spec2Model ----
(***************************************************************************)
(* benchmark_matmul.py: two module globals X and C, the initializer        *)
(* setup_matrices, the two timed kernel runners benchmark_matmul and       *)
(* benchmark_eigendecomposition, and main, which hands the runners to      *)
(* pyperf.Runner.bench_time_func.                                          *)
(*                                                                         *)
(* The module is either run as a script (line 77: main() is executed) or   *)
(* imported, in which case the importer calls the three functions in any   *)
(* order.  The program is single-threaded; every action below is one step  *)
(* of that single thread.                                                  *)
(*                                                                         *)
(* Matrices hold integers instead of floats, so the arithmetic is exact.   *)
(* The clock is logical: now counts the time-consuming steps executed so   *)
(* far (a block of prints, a random draw, a matrix product, a kernel       *)
(* invocation); pyperf.perf_counter() reads it.                            *)
(***************************************************************************)
EXTENDS Integers, Sequences, FiniteSets, TLC

\* ---------------------------------------------------------------- bounds
\* Largest repetition count handed to a runner.
MaxLoops == 2
\* Calls of the time function the harness makes per bench_time_func.
MaxSamples == 2
\* Calls an importer of the module makes.
MaxOps == 3

\* n_rows, n_cols of setup_matrices, scaled down from 100000 x 1000 so that
\* the matrices can be enumerated (rows > cols, as in the source).
n_rows == 3
n_cols == 2
\* The values np.random.randn may put in an entry.
Vals == {0, 1}

\* ---------------------------------------------------------------- data
\* Python's None: the value of X and C before setup_matrices (lines 17-18),
\* and of a call that returned nothing.
None == <<>>
\* A value v that is present (a returned float, an exit status), as opposed to None.
Some(v) == <<v>>

Rows(M) == Len(M)
Cols(M) == Len(M[1])
\* ndarray.shape
Shape(M) == <<Rows(M), Cols(M)>>

\* np.random.randn(r, c): any r x c matrix.
Randn(r, c) == [1..r -> [1..c -> Vals]]

\* ndarray.T
Transpose(M) == [j \in 1..Cols(M) |-> [i \in 1..Rows(M) |-> M[i][j]]]

RECURSIVE DotTo(_, _, _, _, _)
\* sum over k = 1..n of A[i][k] * B[k][j], accumulated in index order
DotTo(A, B, i, j, n) ==
    IF n = 0 THEN 0 ELSE DotTo(A, B, i, j, n - 1) + A[i][n] * B[n][j]

\* the @ operator on two conformable 2-d arrays
MatMul(A, B) ==
    [i \in 1..Rows(A) |-> [j \in 1..Cols(B) |-> DotTo(A, B, i, j, Cols(A))]]

\* Mutant of Gram: the operands of the product are swapped (X @ X.T).
GramSwapped(M) == MatMul(M, Transpose(M))

\* X.T @ X, the expression of lines 29 and 36.
Gram(M) == MatMul(Transpose(M), M)

\* Mutant of RangeLen: one iteration too many.
RangeLenOffByOne(n) == n + 1

\* Number of iterations of `for _ in range(n)`.
RangeLen(n) == IF n > 0 THEN n ELSE 0

\* Mutant of Elapsed: the start stamp is not subtracted.
ElapsedNoStart(t1, start) == t1

\* pyperf.perf_counter() - t0
Elapsed(t1, start) == t1 - start

VARIABLES
    entry,        \* "__main__": run as a script; "imported": functions called by an importer
    phase,        \* position of main (or "idle" for an importer)
    fn,           \* position inside the function being called, "none" outside a call,
                  \* "ret" / "exc" when the call has returned / raised to an importer
    kernel,       \* the runner called last: "matmul", "eigendecomposition", or "none"
                  \* when the last call was setup_matrices
    X, C,         \* the module globals
    loops,        \* the runner's argument
    i,            \* iterations of the runner's for loop started so far
    kcalls,       \* kernel invocations completed in this runner call
    t0,           \* the runner's local t0
    now,          \* the logical clock
    result,       \* value returned by the last runner call, None if it returned nothing
    raised,       \* where the last exception was raised, "none" if none
    exitStatus,   \* process exit status, None while the process runs
    setupState,   \* "never": setup_matrices has not assigned; "returned": the last
                  \* setup_matrices that assigned X also stored C; "torn": line 29
                  \* raised after line 27 assigned X
    xChanged,     \* whether the last assignment of line 27 changed the value of X
    setupCalls,   \* calls of setup_matrices
    setupReturns, \* normal returns of setup_matrices
    randnCalls,   \* draws made by line 27
    clockReads,   \* calls of pyperf.perf_counter
    prints,       \* banner blocks printed
    matmulCalls,  \* completed invocations of X.T @ X by benchmark_matmul
    eighCalls,    \* completed invocations of np.linalg.eigh(C)
    samples,      \* time-function calls made by the current bench_time_func
    ops           \* calls made by the importer

vars == <<entry, phase, fn, kernel, X, C, loops, i, kcalls, t0, now, result,
          raised, exitStatus, setupState, xChanged, setupCalls, setupReturns,
          randnCalls, clockReads, prints, matmulCalls, eighCalls, samples, ops>>

data == <<X, C>>
call == <<kernel, loops, i, kcalls, t0, result>>
setupGhost == <<setupState, xChanged, setupCalls, setupReturns, randnCalls>>
counts == <<clockReads, prints, matmulCalls, eighCalls, samples, ops>>

Init ==
    /\ entry \in {"__main__", "imported"}
    /\ phase = IF entry = "__main__" THEN "banner" ELSE "idle"
    /\ fn = "none"
    /\ kernel = "none"
    /\ X = None
    /\ C = None
    /\ loops = 0
    /\ i = 0
    /\ kcalls = 0
    /\ t0 = 0
    /\ now = 0
    /\ result = None
    /\ raised = "none"
    /\ exitStatus = None
    /\ setupState = "never"
    /\ xChanged = FALSE
    /\ setupCalls = 0
    /\ setupReturns = 0
    /\ randnCalls = 0
    /\ clockReads = 0
    /\ prints = 0
    /\ matmulCalls = 0
    /\ eighCalls = 0
    /\ samples = 0
    /\ ops = 0


\* ---------------------------------------------------------------- exceptions
\* Mutant of Raise: main catches the exception of benchmark A and goes on to
\* benchmark B.
RaiseSwallowed(src) ==
    /\ raised' = src
    /\ IF entry = "__main__"
       THEN /\ fn' = "none"
            /\ phase' = IF phase = "benchA" THEN "banner2" ELSE "exited"
            /\ exitStatus' = IF phase = "benchA" THEN exitStatus ELSE Some(1)
       ELSE /\ fn' = "exc"
            /\ phase' = phase
            /\ exitStatus' = exitStatus

\* An exception raised at src.  No function of the module has a try
\* statement, so in a script run it leaves setup_matrices or the runner, the
\* harness, main and the module: the interpreter prints the traceback and the
\* process ends with status 1.  In an imported module it reaches the importer.
Raise(src) ==
    /\ raised' = src
    /\ IF entry = "__main__"
       THEN /\ fn' = "none"
            /\ phase' = "exited"
            /\ exitStatus' = Some(1)
       ELSE /\ fn' = "exc"
            /\ phase' = phase
            /\ exitStatus' = exitStatus

\* ---------------------------------------------------------------- setup_matrices
\* Mutant of SetupRandn: the first call's matrix is kept (memoized).
SetupRandnMemo ==
    /\ fn = "randn"
    /\ \E M \in Randn(n_rows, n_cols) :
          /\ X' = IF X = None THEN M ELSE X
          /\ xChanged' = (X = None)
          /\ randnCalls' = IF X = None THEN randnCalls + 1 ELSE randnCalls
    /\ now' = now + 1
    /\ fn' = "product"
    /\ UNCHANGED <<entry, phase, C, call, raised, exitStatus, setupState,
                   setupCalls, setupReturns, counts>>

\* Line 27: X = np.random.randn(n_rows, n_cols)
SetupRandn ==
    /\ fn = "randn"
    /\ \E M \in Randn(n_rows, n_cols) :
          /\ X' = M
          /\ xChanged' = (M # X)
    /\ randnCalls' = randnCalls + 1
    /\ now' = now + 1
    /\ fn' = "product"
    /\ UNCHANGED <<entry, phase, C, call, raised, exitStatus, setupState,
                   setupCalls, setupReturns, counts>>

\* Line 27 raises (the allocation fails): X is not assigned.
SetupRandnFails ==
    /\ fn = "randn"
    /\ Raise("randn")
    /\ now' = now + 1
    /\ UNCHANGED <<entry, data, call, setupGhost, counts>>

\* Mutant of SetupProduct: the product is computed only while C is None.
SetupProductCached ==
    /\ fn = "product"
    /\ C' = IF C = None THEN Gram(X) ELSE C
    /\ setupState' = "returned"
    /\ setupReturns' = setupReturns + 1
    /\ now' = now + 1
    /\ fn' = "ret"
    /\ result' = None
    /\ UNCHANGED <<entry, phase, X, kernel, loops, i, kcalls, t0, raised,
                   exitStatus, xChanged, setupCalls, randnCalls, counts>>

\* Line 29: C = X.T @ X, and the return of setup_matrices.
SetupProduct ==
    /\ fn = "product"
    /\ C' = Gram(X)
    /\ setupState' = "returned"
    /\ setupReturns' = setupReturns + 1
    /\ now' = now + 1
    /\ fn' = "ret"
    /\ result' = None
    /\ UNCHANGED <<entry, phase, X, kernel, loops, i, kcalls, t0, raised,
                   exitStatus, xChanged, setupCalls, randnCalls, counts>>

\* Line 29 raises (the product cannot be allocated): X is already assigned,
\* C keeps its previous value.
SetupProductFails ==
    /\ fn = "product"
    /\ Raise("product")
    /\ setupState' = "torn"
    /\ now' = now + 1
    /\ UNCHANGED <<entry, data, call, xChanged, setupCalls, setupReturns,
                   randnCalls, counts>>

\* ---------------------------------------------------------------- kernel runners
\* Line 34 / 42: t0 = pyperf.perf_counter()
ReadT0 ==
    /\ fn = "t0"
    /\ t0' = now
    /\ clockReads' = clockReads + 1
    /\ fn' = "loop"
    /\ UNCHANGED <<entry, phase, data, kernel, loops, i, kcalls, now, result,
                   raised, exitStatus, setupGhost, prints, matmulCalls,
                   eighCalls, samples, ops>>

\* Mutant of OperandMissing: a kernel called on None does nothing.
OperandNeverMissing(k) == FALSE

\* X.T on None raises AttributeError; np.linalg.eigh(None) raises LinAlgError.
OperandMissing(k) == IF k = "matmul" THEN X = None ELSE C = None

\* Mutant of KernelGlobals: benchmark_matmul assigns its product to X.
KernelGlobalsStored(k) == IF k = "matmul" THEN <<Gram(X), C>> ELSE <<X, C>>

\* The globals after a kernel invocation: lines 36 and 44 are expression
\* statements, their values are dropped.
KernelGlobals(k) == <<X, C>>

\* Lines 35-36 / 43-44: one iteration whose kernel invocation completes.
KernelOk ==
    /\ fn = "loop"
    /\ i < RangeLen(loops)
    /\ ~OperandMissing(kernel)
    /\ i' = i + 1
    /\ kcalls' = kcalls + 1
    /\ X' = KernelGlobals(kernel)[1]
    /\ C' = KernelGlobals(kernel)[2]
    /\ matmulCalls' = IF kernel = "matmul" THEN matmulCalls + 1 ELSE matmulCalls
    /\ eighCalls' = IF kernel = "matmul" THEN eighCalls ELSE eighCalls + 1
    /\ now' = now + 1
    /\ UNCHANGED <<entry, phase, fn, kernel, loops, t0, result, raised,
                   exitStatus, setupGhost, clockReads, prints, samples, ops>>

\* One iteration whose kernel invocation raises inside the numerical library
\* (MemoryError in the product, LinAlgError in eigh).
KernelFails ==
    /\ fn = "loop"
    /\ i < RangeLen(loops)
    /\ ~OperandMissing(kernel)
    /\ i' = i + 1
    /\ Raise("kernel")
    /\ now' = now + 1
    /\ UNCHANGED <<entry, data, kernel, loops, kcalls, t0, result, setupGhost,
                   counts>>

\* One iteration on an operand that is still None.
KernelOnNone ==
    /\ fn = "loop"
    /\ i < RangeLen(loops)
    /\ OperandMissing(kernel)
    /\ i' = i + 1
    /\ Raise("none_operand")
    /\ UNCHANGED <<entry, data, kernel, loops, kcalls, t0, now, result,
                   setupGhost, counts>>

\* Line 37 / 45: return pyperf.perf_counter() - t0, once range(loops) is exhausted.
ReadT1Return ==
    /\ fn = "loop"
    /\ i >= RangeLen(loops)
    /\ result' = Some(Elapsed(now, t0))
    /\ clockReads' = clockReads + 1
    /\ fn' = "ret"
    /\ UNCHANGED <<entry, phase, data, kernel, loops, i, kcalls, t0, now,
                   raised, exitStatus, setupGhost, prints, matmulCalls,
                   eighCalls, samples, ops>>

\* Entry of benchmark_matmul(l) / benchmark_eigendecomposition(l).
EnterRunner(k, l) ==
    /\ kernel' = k
    /\ loops' = l
    /\ i' = 0
    /\ kcalls' = 0
    /\ result' = None
    /\ fn' = "t0"

\* ---------------------------------------------------------------- main
\* Lines 50-53: the title banner.
MainBanner ==
    /\ entry = "__main__"
    /\ phase = "banner"
    /\ prints' = prints + 1
    /\ now' = now + 1
    /\ phase' = "setup"
    /\ UNCHANGED <<entry, fn, data, call, raised, exitStatus, setupGhost,
                   clockReads, matmulCalls, eighCalls, samples, ops>>

\* Line 56: setup_matrices() is called.
MainCallSetup ==
    /\ entry = "__main__"
    /\ phase = "setup"
    /\ fn = "none"
    /\ fn' = "randn"
    /\ kernel' = "none"
    /\ result' = None
    /\ setupCalls' = setupCalls + 1
    /\ UNCHANGED <<entry, phase, data, loops, i, kcalls, t0, now, raised,
                   exitStatus, setupState, xChanged, setupReturns, randnCalls,
                   counts>>

\* Mutant of AfterSetup: main calls setup_matrices a second time.
AfterSetupAgain == IF setupCalls < 2 THEN "setup" ELSE "runner"

\* The statement of main that follows line 56.
AfterSetup == "runner"

\* setup_matrices has returned to main.
MainSetupReturned ==
    /\ entry = "__main__"
    /\ phase = "setup"
    /\ fn = "ret"
    /\ fn' = "none"
    /\ phase' = AfterSetup
    /\ UNCHANGED <<entry, data, call, now, raised, exitStatus, setupGhost,
                   counts>>

\* Line 59: runner = pyperf.Runner()
MainCreateRunner ==
    /\ entry = "__main__"
    /\ phase = "runner"
    /\ phase' = "banner1"
    /\ UNCHANGED <<entry, fn, data, call, now, raised, exitStatus, setupGhost,
                   counts>>

\* Lines 62-65: the banner of benchmark 1; line 64 reads X.shape.
MainBanner1 ==
    /\ entry = "__main__"
    /\ phase = "banner1"
    /\ prints' = prints + 1
    /\ now' = now + 1
    /\ IF X = None
       THEN Raise("none_operand")
       ELSE phase' = "benchA" /\ UNCHANGED <<fn, raised, exitStatus>>
    /\ samples' = 0
    /\ UNCHANGED <<entry, data, call, setupGhost, clockReads, matmulCalls,
                   eighCalls, ops>>

\* Lines 69-73: the banner of benchmark 2; line 72 reads C.shape.
MainBanner2 ==
    /\ entry = "__main__"
    /\ phase = "banner2"
    /\ prints' = prints + 1
    /\ now' = now + 1
    /\ IF C = None
       THEN Raise("none_operand")
       ELSE phase' = "benchB" /\ UNCHANGED <<fn, raised, exitStatus>>
    /\ samples' = 0
    /\ UNCHANGED <<entry, data, call, setupGhost, clockReads, matmulCalls,
                   eighCalls, ops>>

\* Mutant of BenchKernel: the two time functions are registered the other
\* way round.
BenchKernelSwapped(p) == IF p = "benchA" THEN "eigendecomposition" ELSE "matmul"

\* The time function handed to bench_time_func at line 66 and at line 74.
BenchKernel(p) == IF p = "benchA" THEN "matmul" ELSE "eigendecomposition"

\* bench_time_func calls the time function with a repetition count it chose
\* (at least 1).
HarnessCall ==
    /\ entry = "__main__"
    /\ phase \in {"benchA", "benchB"}
    /\ fn = "none"
    /\ samples < MaxSamples
    /\ \E l \in 1..MaxLoops : EnterRunner(BenchKernel(phase), l)
    /\ UNCHANGED <<entry, phase, data, t0, now, raised, exitStatus,
                   setupGhost, counts>>

\* The time function has returned its duration to bench_time_func.
HarnessCollect ==
    /\ entry = "__main__"
    /\ phase \in {"benchA", "benchB"}
    /\ fn = "ret"
    /\ fn' = "none"
    /\ samples' = samples + 1
    /\ UNCHANGED <<entry, phase, data, call, now, raised, exitStatus,
                   setupGhost, clockReads, prints, matmulCalls, eighCalls, ops>>

\* bench_time_func('matmul', ...) returns to main (line 66).
BenchAReturns ==
    /\ entry = "__main__"
    /\ phase = "benchA"
    /\ fn = "none"
    /\ phase' = "banner2"
    /\ UNCHANGED <<entry, fn, data, call, now, raised, exitStatus, setupGhost,
                   counts>>

\* bench_time_func('eigendecomposition', ...) returns (line 74), main returns
\* and the interpreter exits with status 0.
BenchBReturns ==
    /\ entry = "__main__"
    /\ phase = "benchB"
    /\ fn = "none"
    /\ phase' = "exited"
    /\ exitStatus' = Some(0)
    /\ UNCHANGED <<entry, fn, data, call, now, raised, setupGhost, counts>>

\* ---------------------------------------------------------------- importer
\* An importer calls setup_matrices().
CallSetup ==
    /\ entry = "imported"
    /\ fn = "none"
    /\ ops < MaxOps
    /\ ops' = ops + 1
    /\ fn' = "randn"
    /\ kernel' = "none"
    /\ result' = None
    /\ setupCalls' = setupCalls + 1
    /\ UNCHANGED <<entry, phase, data, loops, i, kcalls, t0, now, raised,
                   exitStatus, setupState, xChanged, setupReturns, randnCalls,
                   clockReads, prints, matmulCalls, eighCalls, samples>>

\* An importer calls benchmark_matmul(l) or benchmark_eigendecomposition(l).
CallRunner ==
    /\ entry = "imported"
    /\ fn = "none"
    /\ ops < MaxOps
    /\ ops' = ops + 1
    /\ \E k \in {"matmul", "eigendecomposition"}, l \in -1..MaxLoops :
          EnterRunner(k, l)
    /\ UNCHANGED <<entry, phase, data, t0, now, raised, exitStatus,
                   setupGhost, clockReads, prints, matmulCalls, eighCalls,
                   samples>>

\* The importer has the call's value or exception and goes on.
CallerResumes ==
    /\ entry = "imported"
    /\ fn \in {"ret", "exc"}
    /\ fn' = "none"
    /\ UNCHANGED <<entry, phase, data, call, now, raised, exitStatus,
                   setupGhost, counts>>

Next ==
    \/ MainBanner
    \/ MainCallSetup
    \/ MainSetupReturned
    \/ MainCreateRunner
    \/ MainBanner1
    \/ MainBanner2
    \/ HarnessCall
    \/ HarnessCollect
    \/ BenchAReturns
    \/ BenchBReturns
    \/ CallSetup
    \/ CallRunner
    \/ CallerResumes
    \/ SetupRandn
    \/ SetupRandnFails
    \/ SetupProduct
    \/ SetupProductFails
    \/ ReadT0
    \/ KernelOk
    \/ KernelFails
    \/ KernelOnNone
    \/ ReadT1Return

Spec == Init /\ [][Next]_vars

\* ---------------------------------------------------------------- properties
Script == entry = "__main__"
InSetup == fn \in {"randn", "product"}
InRunner == fn \in {"t0", "loop"}
\* No call is in progress.
Quiescent == fn \in {"none", "ret", "exc"}
\* A kernel runner has just returned.
RunnerReturned == fn = "ret" /\ kernel # "none"
\* setup_matrices has just returned.
SetupReturned == fn = "ret" /\ kernel = "none"

PhaseRank(p) ==
    CASE p = "banner" -> 0
      [] p = "setup" -> 1
      [] p = "runner" -> 2
      [] p = "banner1" -> 3
      [] p = "benchA" -> 4
      [] p = "banner2" -> 5
      [] p = "benchB" -> 6
      [] p = "exited" -> 7
      [] OTHER -> -1

RECURSIVE ColDot(_, _, _, _)
\* sum over the first n rows k of M[k][a] * M[k][b]
ColDot(M, a, b, n) ==
    IF n = 0 THEN 0 ELSE ColDot(M, a, b, n - 1) + M[n][a] * M[n][b]

\* G is the transpose-product of M: square of side Cols(M), entry (a, b) the
\* inner product of columns a and b of M.
IsGramOf(G, M) ==
    /\ Shape(G) = <<Cols(M), Cols(M)>>
    /\ \A a, b \in 1..Cols(M) : G[a][b] = ColDot(M, a, b, Rows(M))

\* C1: a run of main is linear.  The position of main only moves forward, one
\* statement at a time or to the exit; setup_matrices returns while main is at
\* line 56; matmul kernel invocations happen only inside benchmark A and
\* before any eigendecomposition invocation; eigendecomposition invocations
\* happen only inside benchmark B.
C1_MainIsLinear ==
    [][Script =>
         /\ PhaseRank(phase') >= PhaseRank(phase)
         /\ \/ PhaseRank(phase') <= PhaseRank(phase) + 1
            \/ phase' = "exited"
         /\ (setupReturns' # setupReturns => phase = "setup")
         /\ (PhaseRank(phase) >= PhaseRank("benchA") /\ phase # "exited"
               => setupReturns = 1)
         /\ (matmulCalls' # matmulCalls => phase = "benchA" /\ eighCalls = 0)
         /\ (eighCalls' # eighCalls => phase = "benchB")]_vars

C1_Witness ==
    /\ Script
    /\ phase = "exited"
    /\ exitStatus = Some(0)
    /\ matmulCalls >= 2
    /\ eighCalls >= 2

\* C2: in a run of main setup_matrices is called at most once, the clock is
\* read only after it has returned with both matrices built, and a run that
\* ends normally has executed it exactly once.
C2_SetupOnceBeforeTiming ==
    Script =>
      /\ setupCalls <= 1
      /\ randnCalls <= 1
      /\ (clockReads > 0 =>
            setupReturns = 1 /\ ~InSetup /\ X # None /\ C # None)
      /\ (exitStatus = Some(0) => setupCalls = 1 /\ setupReturns = 1)

C2_Witness ==
    /\ Script
    /\ exitStatus = Some(0)
    /\ clockReads >= 4
    /\ setupCalls = 1

\* C3: X and C change only inside setup_matrices: every step of a kernel
\* runner, of its caller and of the harness leaves both globals as they were.
C3_GlobalsReadOnly ==
    [][~InSetup => X' = X /\ C' = C]_vars

C3_Witness ==
    /\ entry = "imported"
    /\ RunnerReturned
    /\ kernel = "eigendecomposition"
    /\ kcalls = 2
    /\ matmulCalls >= 1
    /\ setupState = "returned"

\* C4: a kernel runner called with repetition count n >= 0 has completed
\* exactly n kernel invocations when it returns, and it returns a duration;
\* with n = 0 it has made none.
C4_ExactlyNInvocations ==
    (RunnerReturned /\ loops >= 0) =>
        /\ kcalls = loops
        /\ i = loops
        /\ result # None

C4_Witness ==
    /\ RunnerReturned
    /\ loops = MaxLoops
    /\ kcalls = MaxLoops
    /\ samples = 1

\* C5: the duration a runner returns is the end clock minus the start clock,
\* the start clock was read after setup_matrices returned (in a run of main),
\* and the only time-consuming steps between the two reads are the kernel
\* invocations of that call: the clock advanced by exactly their number.
C5_DurationCoversKernelsOnly ==
    RunnerReturned =>
        /\ result = Some(now - t0)
        /\ now - t0 = kcalls
        /\ (Script => setupReturns = 1 /\ prints >= 2)

C5_Witness ==
    /\ Script
    /\ RunnerReturned
    /\ kernel = "eigendecomposition"
    /\ kcalls = 2
    /\ result = Some(2)

\* C6: once setup_matrices has returned, X is n_rows by n_cols and C is
\* square of side n_cols, symmetric, and its entry (a, b) is the inner product
\* of columns a and b of X.
C6_DerivedSquareSymmetric ==
    (setupState = "returned" /\ ~InSetup) =>
        /\ Shape(X) = <<n_rows, n_cols>>
        /\ Shape(C) = <<n_cols, n_cols>>
        /\ \A a, b \in 1..n_cols : C[a][b] = C[b][a]
        /\ IsGramOf(C, X)

C6_Witness ==
    /\ SetupReturned
    /\ setupState = "returned"
    /\ C[1][2] # 0
    /\ C[1][1] # C[2][2]
    /\ C[2][1] = C[1][2]

\* C7: in a run of main an exception ends the process at once with a nonzero
\* status and no duration returned; if it was raised in benchmark A no
\* eigendecomposition was ever invoked; a run without exception ends with
\* status 0; and nothing is executed after the process has ended.
C7_FailureTerminates ==
    /\ [](Script =>
            /\ (raised # "none" =>
                  /\ phase = "exited"
                  /\ exitStatus = Some(1)
                  /\ result = None
                  /\ (kernel # "eigendecomposition" => eighCalls = 0))
            /\ (phase = "exited" /\ raised = "none" => exitStatus = Some(0))
            /\ (phase # "exited" => exitStatus = None))
    /\ [][phase # "exited"]_vars

C7_Witness ==
    /\ Script
    /\ raised = "kernel"
    /\ kernel = "matmul"
    /\ kcalls = 1
    /\ samples = 1
    /\ exitStatus = Some(1)

\* C8 as stated: after a second draw X differs from the matrix it replaced.
C8_SecondCallDiffers ==
    (SetupReturned /\ randnCalls >= 2) =>
        Shape(X) = <<n_rows, n_cols>> /\ xChanged

\* C8, amended: every setup_matrices call that passes line 27 makes its own
\* draw and assigns it to X (nothing is kept from an earlier call); the
\* matrix has the same shape each time, and it differs from the one it
\* replaces exactly when the new draw differs from it.
C8_FreshDrawEachCall ==
    [][(fn = "randn" /\ fn' = "product") =>
          /\ randnCalls' = randnCalls + 1
          /\ X' \in Randn(n_rows, n_cols)
          /\ Shape(X') = <<n_rows, n_cols>>
          /\ (xChanged' <=> X' # X)]_vars

C8_Witness ==
    /\ SetupReturned
    /\ setupReturns = 2
    /\ randnCalls = 2
    /\ xChanged

\* X and C are both None, or C is the transpose-product of the current X.
Consistent ==
    \/ X = None /\ C = None
    \/ X # None /\ C # None /\ IsGramOf(C, X)

\* C9 as stated: whenever no call is in progress, X and C are consistent.
C9_AlwaysConsistent ==
    Quiescent => Consistent

\* C9, amended: whenever no call is in progress, X and C are both None (no
\* setup_matrices call has assigned yet) or C is the transpose-product of the
\* current X, unless line 29 has raised since the last setup_matrices call
\* that returned: then X is the new matrix and C still has its old value.
C9_ConsistentUnlessTorn ==
    Quiescent =>
        /\ (setupState = "never" => X = None /\ C = None)
        /\ (setupState = "returned" => X # None /\ C # None /\ IsGramOf(C, X))
        /\ (setupState = "torn" => X # None)

C9_Witness ==
    /\ entry = "imported"
    /\ Quiescent
    /\ setupState = "returned"
    /\ setupReturns = 2
    /\ xChanged
    /\ ops = MaxOps

\* C10: in a run of main a runner only executes with X and C initialized; no
\* kernel invocation ever completes on None; a runner that returns while X
\* and C are None was called with a count below 1, made no invocation and
\* returned a duration; a runner that met None was called with a count of at
\* least 1 and returned nothing.
C10_KernelsNeedData ==
    /\ (Script /\ InRunner => X # None /\ C # None)
    /\ (X = None => matmulCalls = 0)
    /\ (C = None => eighCalls = 0)
    /\ (RunnerReturned /\ X = None /\ C = None =>
          loops <= 0 /\ kcalls = 0 /\ result = Some(0))
    /\ (raised = "none_operand" /\ fn = "exc" =>
          loops >= 1 /\ kcalls = 0 /\ result = None)

C10_Witness ==
    /\ RunnerReturned
    /\ X = None
    /\ C = None
    /\ loops = 0
    /\ raised = "none_operand"
====
